---- MODULE Spec2Model ----
(***************************************************************************)
(* git-memo: one relocation pass of src/main.rs.                           *)
(*                                                                         *)
(* The pass reads in.json (RootData), asks git for the current revision,   *)
(* and for every tag of every comment of every file decides whether to     *)
(* skip it, asks `git merge-base --is-ancestor`, runs a reverse blame,     *)
(* parses every blame line with a regular expression and pushes a new tag  *)
(* onto the comment in the output copy, which is finally written to        *)
(* out.json.  git is an external process: its exit status and its output   *)
(* are chosen nondeterministically at each call.  Text is modelled as a    *)
(* sequence of one-character strings so that the trailing newline of a     *)
(* command's output and the tokens of a blame line are real.  Spawning a   *)
(* child process and reading and writing the two JSON files succeed.       *)
(***************************************************************************)
EXTENDS Integers, Sequences, FiniteSets, TLC

\* ---------------------------------------------------------------- bounds
\* The leaves of a document explored: its tags, its comments without tags
\* and its files without comments.
MaxLeaves == 2
\* The lines of a blame output explored.
MaxLines == 2

\* ------------------------------------------------------------------ text
NL == "\n"
SP == " "
RP == ")"

Digits == {"0", "1", "2", "3", "4", "5", "6", "7", "8", "9"}

DigitVal(c) ==
  CASE c = "0" -> 0 [] c = "1" -> 1 [] c = "2" -> 2 [] c = "3" -> 3
    [] c = "4" -> 4 [] c = "5" -> 5 [] c = "6" -> 6 [] c = "7" -> 7
    [] c = "8" -> 8 [] c = "9" -> 9

I32Max == 2147483647
I32Min == (0 - I32Max) - 1

RECURSIVE DecValue(_)
DecValue(s) ==
  IF s = <<>> THEN 0
  ELSE 10 * DecValue(SubSeq(s, 1, Len(s) - 1)) + DigitVal(s[Len(s)])

AllDigits(s) == \A i \in 1..Len(s) : s[i] \in Digits

\* str::parse::<i32>: an optional sign, at least one digit, nothing else,
\* and a value that fits 32 bits.
ParseI32(s) ==
  LET signed == Len(s) > 0 /\ s[1] \in {"-", "+"}
      body   == IF signed THEN SubSeq(s, 2, Len(s)) ELSE s
      mag    == DecValue(body)
      val    == IF signed /\ s[1] = "-" THEN 0 - mag ELSE mag
  IN  IF body = <<>> \/ ~AllDigits(body) THEN [ok |-> FALSE, val |-> 0]
      ELSE IF val < I32Min \/ val > I32Max THEN [ok |-> FALSE, val |-> 0]
      ELSE [ok |-> TRUE, val |-> val]

\* ------------------------------------------------------------ data model
TagStatus == {"Normal", "Missing"}

\* The short identifier of HEAD in ./example-repo.
HeadRevision == <<"a">>

\* The short identifier of an older revision.
OldRevision == <<"b">>

\* The tags of the documents explored: tags stamped with an older revision,
\* at every line; a tag stamped with HEAD as a user writes it; and a tag
\* stamped with HEAD as `git rev-parse` prints it.
CommentTag ==
  [revision : {OldRevision}, line : 0..MaxLines, status : {"Normal"}]
    \cup [revision : {HeadRevision}, line : {1}, status : {"Normal"}]
    \cup [revision : {HeadRevision \o <<NL>>}, line : {1}, status : {"Missing"}]

\* The comments of k leaves.
CommentsOf(k) ==
  [text : {"memo"}, tags : [1..k -> CommentTag]]
    \cup (IF k = 1 THEN {[text |-> "memo", tags |-> <<>>]} ELSE {})

\* The sequences of comments of k leaves in all.
RECURSIVE CommentSeqs(_)
CommentSeqs(k) ==
  IF k = 0 THEN {<<>>}
  ELSE UNION {{<<c>> \o cs : c \in CommentsOf(j), cs \in CommentSeqs(k - j)} :
                j \in 1..k}

FilesOf(k) ==
  [path : {"README.md"}, comments : CommentSeqs(k) \ {<<>>}]
    \cup (IF k = 1 THEN {[path |-> "README.md", comments |-> <<>>]} ELSE {})

RECURSIVE FileSeqs(_)
FileSeqs(k) ==
  IF k = 0 THEN {<<>>}
  ELSE UNION {{<<f>> \o fs : f \in FilesOf(j), fs \in FileSeqs(k - j)} :
                j \in 1..k}

RootData == UNION {[files : FileSeqs(k)] : k \in 0..MaxLeaves}

\* Rust indexes from 0.
Index0(s, i) == s[i + 1]

\* --------------------------------------------------- trace output parser
FirstAt(s, c, from) ==
  LET hits == {i \in from..Len(s) : s[i] = c}
  IN  IF hits = {} THEN 0 ELSE CHOOSE i \in hits : \A j \in hits : i <= j

LastAt(s, c, lo, hi) ==
  LET hits == {i \in lo..hi : s[i] = c}
  IN  IF hits = {} THEN 0 ELSE CHOOSE i \in hits : \A j \in hits : j <= i

\* The match of  ^(?P<revision>[^ ]+) (?P<new_line>[^ ]+) [^)]+ (?P<orig_line>[0-9]+)\)
\* on a line.  The revision ends at the first space, new_line at the second,
\* the closing parenthesis is the first one after that, and orig_line is the
\* run of digits between the last space before it and the parenthesis.
Captures(line) ==
  LET sp1  == FirstAt(line, SP, 1)
      sp2  == FirstAt(line, SP, sp1 + 1)
      rp   == FirstAt(line, RP, sp2 + 1)
      sp3  == LastAt(line, SP, sp2 + 1, rp - 1)
      orig == SubSeq(line, sp3 + 1, rp - 1)
  IN  IF /\ sp1 > 1
         /\ sp2 > sp1 + 1
         /\ rp > 0
         /\ sp3 > sp2 + 1
         /\ orig # <<>>
         /\ AllDigits(orig)
      THEN [matched   |-> TRUE,
            revision  |-> SubSeq(line, 1, sp1 - 1),
            new_line  |-> SubSeq(line, sp1 + 1, sp2 - 1),
            orig_line |-> orig]
      ELSE [matched |-> FALSE, revision |-> <<>>, new_line |-> <<>>,
            orig_line |-> <<>>]

NoResult == [revision |-> <<>>, orig_line_number |-> 0, new_line_number |-> 0]

\* new_from_line with a line the pattern rejects, or a number that does not
\* parse, passed over instead of unwrapped.
new_from_line_lenient(line) ==
  LET captures == Captures(line)
      new_line_number  == ParseI32(captures.new_line)
      orig_line_number == ParseI32(captures.orig_line)
  IN  [ok |-> TRUE, panic |-> "none",
       result |-> IF captures.matched /\ new_line_number.ok /\ orig_line_number.ok
                    THEN [revision         |-> captures.revision,
                          orig_line_number |-> orig_line_number.val,
                          new_line_number  |-> new_line_number.val]
                  ELSE NoResult]

\* GitBlameResult::new_from_line: every unwrap is a panic.
new_from_line(line) ==
  LET captures == Captures(line)
      new_line_number  == ParseI32(captures.new_line)
      orig_line_number == ParseI32(captures.orig_line)
  IN  IF ~captures.matched
        THEN [ok |-> FALSE, panic |-> "captures_none", result |-> NoResult]
      ELSE IF ~new_line_number.ok \/ ~orig_line_number.ok
        THEN [ok |-> FALSE, panic |-> "parse_int", result |-> NoResult]
      ELSE [ok |-> TRUE, panic |-> "none",
            result |-> [revision         |-> captures.revision,
                        orig_line_number |-> orig_line_number.val,
                        new_line_number  |-> new_line_number.val]]

\* The reverse blame of the file, one line of output per line of the file
\* at the older revision.
BlameFile ==
  << <<"a", SP, "3", SP, "(", "x", SP, "1", RP, SP, "t">>,
     <<"c", SP, "0", SP, "(", "x", SP, "2", RP>>,
     <<"a", SP, "5", SP, "(", "x", SP, "3", RP>>,
     <<"c", SP, "6", SP, "(", "x", SP, "4", RP>> >>

\* Lines the pattern rejects (no revision token) or whose new_line is no
\* integer.
MalformedLines ==
  { <<SP, "1", SP, "(", "x", SP, "1", RP>>,
    <<"a", SP, "z", SP, "(", "x", SP, "1", RP>> }

Min(a, b) == IF a <= b THEN a ELSE b

FirstLines(n) == SubSeq(BlameFile, 1, Min(n, Len(BlameFile)))

\* What the blame process may print: the first lines of the blame of the
\* file, or some of them followed by a malformed line.
BlameOutputs ==
  {FirstLines(n) : n \in 0..MaxLines}
    \cup {Append(FirstLines(n), bad) : n \in 0..(MaxLines - 1), bad \in MalformedLines}

\* Exit statuses of a git child process; NoCode is a child killed by a
\* signal, for which ExitStatus::code() is None.
NoCode == -1
RevParseExits == {0, 128}
MergeBaseExits == {0, 1, 128, NoCode}
BlameExits == {0, 128}

\* ------------------------------------------------------------- the pass
\* data, new_data       the document read from in.json and its clone
\* pc, panic            where main is, and the unwrap that panicked
\* current_revision     the text git_current_revision returned
\* rev_parse_exit       the exit status of `git rev-parse`
\* file_index, comment_index, tag_index
\*                      the tag the three nested loops are at
\* merge_base_exit      the exit status of `git merge-base` for this tag
\* is_ancestor          the boolean last bound at line 221
\* blame_exit, stdout_output
\*                      the exit status and the lines of `git blame` for
\*                      this tag
\* results              the parsed blame lines
\* out_json             the documents written to out.json
\* n_ancestry           the calls of git_merge_base_is_ancestor so far
\* n_append             the pushes onto the clone so far
\* n_write              the writes of out.json so far
VARIABLES data, new_data, pc, panic, current_revision, rev_parse_exit,
          file_index, comment_index, tag_index, merge_base_exit,
          is_ancestor, blame_exit, stdout_output, results, out_json,
          n_ancestry, n_append, n_write

vars == <<data, new_data, pc, panic, current_revision, rev_parse_exit,
          file_index, comment_index, tag_index, merge_base_exit,
          is_ancestor, blame_exit, stdout_output, results, out_json,
          n_ancestry, n_append, n_write>>

\* The positions of the tags of the input, in the order of the three
\* nested loops of main.
TagPositions ==
  UNION { UNION { { <<f, c, t>> :
                      t \in 0..(Len(Index0(Index0(data.files, f).comments, c).tags) - 1) } :
                  c \in 0..(Len(Index0(data.files, f).comments) - 1) } :
          f \in 0..(Len(data.files) - 1) }

Before(p, q) ==
  \/ p[1] < q[1]
  \/ p[1] = q[1] /\ p[2] < q[2]
  \/ p[1] = q[1] /\ p[2] = q[2] /\ p[3] < q[3]

First(P) == CHOOSE p \in P : \A q \in P : p = q \/ Before(p, q)

Position == <<file_index, comment_index, tag_index>>

Remaining == {p \in TagPositions : Before(Position, p)}

CurrentTag ==
  Index0(Index0(Index0(data.files, file_index).comments, comment_index).tags,
         tag_index)

TagsOf(d, f, c) == Index0(Index0(d.files, f).comments, c).tags

\* Leave the loops towards the serialisation of the output.
Leave ==
  /\ pc' = "write"
  /\ merge_base_exit' = 0
  /\ blame_exit' = 0
  /\ stdout_output' = <<>>
  /\ UNCHANGED <<file_index, comment_index, tag_index>>

\* `continue` / end of the body of the innermost loop.
NextTag ==
  LET rest == Remaining
      next == First(rest)
  IN  IF rest = {} THEN Leave
      ELSE /\ pc' = "tag"
           /\ merge_base_exit' = 0
           /\ blame_exit' = 0
           /\ stdout_output' = <<>>
           /\ file_index' = next[1]
           /\ comment_index' = next[2]
           /\ tag_index' = next[3]

Panic(why) ==
  /\ pc' = "panicked"
  /\ panic' = why
  /\ UNCHANGED <<file_index, comment_index, tag_index>>

Init ==
  /\ data \in RootData
  /\ new_data = data
  /\ pc = "rev_parse"
  /\ panic = "none"
  /\ current_revision = <<>>
  /\ rev_parse_exit = 0
  /\ file_index = 0
  /\ comment_index = 0
  /\ tag_index = 0
  /\ merge_base_exit = 0
  /\ is_ancestor = FALSE
  /\ blame_exit = 0
  /\ stdout_output = <<>>
  /\ results = <<>>
  /\ out_json = <<>>
  /\ n_ancestry = 0
  /\ n_append = 0
  /\ n_write = 0

\* git rev-parse --short HEAD: the captured standard output, whatever the
\* exit status.
git_current_revision(exit) ==
  IF exit = 0 THEN HeadRevision \o <<NL>> ELSE <<>>

GitCurrentRevision ==
  /\ pc = "rev_parse"
  /\ \E exit \in RevParseExits :
       /\ rev_parse_exit' = exit
       /\ current_revision' = git_current_revision(exit)
  /\ LET all   == TagPositions
         first == First(all)
     IN  IF all = {} THEN Leave
         ELSE /\ pc' = "tag"
              /\ file_index' = first[1]
              /\ comment_index' = first[2]
              /\ tag_index' = first[3]
              /\ UNCHANGED <<merge_base_exit, blame_exit, stdout_output>>
  /\ UNCHANGED <<data, new_data, panic, is_ancestor, results, out_json,
                 n_ancestry, n_append, n_write>>

\* The comparison of line 217 left out.
SameRevisionNever(tag) == FALSE

SameRevision(tag) == tag.revision = current_revision

SameRevisionSkip ==
  /\ pc = "tag"
  /\ SameRevision(CurrentTag)
  /\ NextTag
  /\ UNCHANGED <<data, new_data, panic, current_revision, rev_parse_exit,
                 is_ancestor, results, out_json, n_ancestry, n_append,
                 n_write>>

\* git merge-base --is-ancestor: the boolean is `exit code == 0`.
git_merge_base_is_ancestor(exit) == exit = 0

MergeBaseIsAncestor ==
  /\ pc = "tag"
  /\ ~SameRevision(CurrentTag)
  /\ n_ancestry' = n_ancestry + 1
  /\ \E exit \in MergeBaseExits :
       /\ merge_base_exit' = exit
       /\ IF exit = NoCode
            THEN Panic("no_exit_code") /\ UNCHANGED is_ancestor
          ELSE /\ is_ancestor' = git_merge_base_is_ancestor(exit)
               /\ pc' = "is_ancestor"
               /\ UNCHANGED <<panic, file_index, comment_index, tag_index>>
  /\ UNCHANGED <<data, new_data, current_revision, rev_parse_exit,
                 blame_exit, stdout_output, results, out_json, n_append,
                 n_write>>

\* The test of line 224 inverted.
IfAncestorInverted ==
  /\ pc = "is_ancestor"
  /\ IF ~is_ancestor
       THEN /\ pc' = "blame"
            /\ UNCHANGED <<file_index, comment_index, tag_index,
                           merge_base_exit, blame_exit, stdout_output>>
     ELSE NextTag
  /\ UNCHANGED <<data, new_data, panic, current_revision, rev_parse_exit,
                 is_ancestor, results, out_json, n_ancestry, n_append,
                 n_write>>

\* `if is_ancestor { ... }`
IfAncestor ==
  /\ pc = "is_ancestor"
  /\ IF is_ancestor
       THEN /\ pc' = "blame"
            /\ UNCHANGED <<file_index, comment_index, tag_index,
                           merge_base_exit, blame_exit, stdout_output>>
     ELSE NextTag
  /\ UNCHANGED <<data, new_data, panic, current_revision, rev_parse_exit,
                 is_ancestor, results, out_json, n_ancestry, n_append,
                 n_write>>

ParsedAll(lines) == \A i \in 1..Len(lines) : new_from_line(lines[i]).ok

FirstBad(lines) ==
  CHOOSE i \in 1..Len(lines) :
    /\ ~new_from_line(lines[i]).ok
    /\ \A j \in 1..(i - 1) : new_from_line(lines[j]).ok

\* git_blame_reverse and the unwrap of its result in main.
GitBlameReverse ==
  /\ pc = "blame"
  /\ \E exit \in BlameExits :
     \E lines \in (IF exit = 0 THEN BlameOutputs ELSE {<<>>}) :
       /\ blame_exit' = exit
       /\ stdout_output' = lines
       /\ IF exit # 0
            THEN Panic("blame_failed") /\ UNCHANGED results
          ELSE IF ~ParsedAll(lines)
            THEN Panic(new_from_line(lines[FirstBad(lines)]).panic)
                 /\ UNCHANGED results
          ELSE /\ results' = [i \in 1..Len(lines) |->
                                new_from_line(lines[i]).result]
               /\ pc' = "lookup"
               /\ UNCHANGED <<panic, file_index, comment_index, tag_index>>
  /\ UNCHANGED <<data, new_data, current_revision, rev_parse_exit,
                 merge_base_exit, is_ancestor, out_json, n_ancestry, n_append,
                 n_write>>

InRange(tag, rs) == 1 <= tag.line /\ tag.line <= Len(rs)

\* The tag built from the line number at the older revision.
NewTagOrigLine(tag, rs) ==
  LET new_info == Index0(rs, tag.line - 1)
  IN  [revision |-> new_info.revision,
       line     |-> new_info.orig_line_number,
       status   |-> "Normal"]

NewTag(tag, rs) ==
  LET new_info == Index0(rs, tag.line - 1)
  IN  [revision |-> new_info.revision,
       line     |-> new_info.new_line_number,
       status   |-> "Normal"]

\* The tag inserted at the front of the comment's tags.
PushFront(d, f, c, tag) ==
  [d EXCEPT !.files[f + 1].comments[c + 1].tags = <<tag>> \o @]

Push(d, f, c, tag) ==
  [d EXCEPT !.files[f + 1].comments[c + 1].tags = Append(@, tag)]

\* The lookup without the bounds check of line 236: the index panics.
RelocateUnchecked ==
  /\ pc = "lookup"
  /\ IF InRange(CurrentTag, results)
       THEN /\ new_data' = Push(new_data, file_index, comment_index,
                                NewTag(CurrentTag, results))
            /\ n_append' = n_append + 1
            /\ results' = <<>>
            /\ NextTag
            /\ UNCHANGED panic
     ELSE /\ Panic("index_out_of_bounds")
          /\ UNCHANGED <<new_data, n_append, results, merge_base_exit,
                         blame_exit, stdout_output>>
  /\ UNCHANGED <<data, current_revision, rev_parse_exit, is_ancestor,
                 out_json, n_ancestry, n_write>>

Relocate ==
  /\ pc = "lookup"
  /\ IF InRange(CurrentTag, results)
       THEN /\ new_data' = Push(new_data, file_index, comment_index,
                                NewTag(CurrentTag, results))
            /\ n_append' = n_append + 1
     ELSE UNCHANGED <<new_data, n_append>>
  /\ results' = <<>>
  /\ NextTag
  /\ UNCHANGED <<data, panic, current_revision, rev_parse_exit, is_ancestor,
                 out_json, n_ancestry, n_write>>

WriteOutput ==
  /\ pc = "write"
  /\ out_json' = <<new_data>>
  /\ n_write' = n_write + 1
  /\ pc' = "done"
  /\ UNCHANGED <<data, new_data, panic, current_revision, rev_parse_exit,
                 file_index, comment_index, tag_index, merge_base_exit,
                 is_ancestor, blame_exit, stdout_output, results,
                 n_ancestry, n_append>>

Next ==
  \/ GitCurrentRevision
  \/ SameRevisionSkip
  \/ MergeBaseIsAncestor
  \/ IfAncestor
  \/ GitBlameReverse
  \/ Relocate
  \/ WriteOutput

Spec == Init /\ [][Next]_vars

\* ---------------------------------------------------------------- claims
CommentPositions(d) ==
  UNION { { <<f, c>> : c \in 0..(Len(Index0(d.files, f).comments) - 1) } :
          f \in 0..(Len(d.files) - 1) }

IsPrefix(s, t) == Len(s) <= Len(t) /\ SubSeq(t, 1, Len(s)) = s

\* The same files and comments, in the same order, whatever their tags.
SameShape(d, e) ==
  /\ Len(d.files) = Len(e.files)
  /\ \A f \in 1..Len(d.files) :
       /\ d.files[f].path = e.files[f].path
       /\ Len(d.files[f].comments) = Len(e.files[f].comments)
       /\ \A c \in 1..Len(d.files[f].comments) :
            d.files[f].comments[c].text = e.files[f].comments[c].text

Extends(d, e) ==
  /\ SameShape(d, e)
  /\ \A p \in CommentPositions(d) :
       IsPrefix(TagsOf(d, p[1], p[2]), TagsOf(e, p[1], p[2]))

LinesPositive(d) ==
  \A p \in CommentPositions(d) :
    \A t \in 1..Len(TagsOf(d, p[1], p[2])) : TagsOf(d, p[1], p[2])[t].line >= 1

\* C1: when the blame of a tag has parsed into N records and
\* 1 <= tag.line <= N, the lookup appends to that tag's comment exactly one
\* tag, made of the revision and the new line number of record tag.line - 1
\* (counting from 0) and of the status Normal, and changes nothing else of
\* the output copy.
PositionalLookup ==
  [][ (pc = "lookup" /\ 1 <= CurrentTag.line /\ CurrentTag.line <= Len(results))
        => /\ SameShape(new_data, new_data')
           /\ \A p \in CommentPositions(new_data) :
                TagsOf(new_data', p[1], p[2]) =
                  IF p = <<file_index, comment_index>>
                    THEN Append(TagsOf(new_data, p[1], p[2]),
                                [revision |-> results[CurrentTag.line].revision,
                                 line     |-> results[CurrentTag.line].new_line_number,
                                 status   |-> "Normal"])
                  ELSE TagsOf(new_data, p[1], p[2]) ]_vars

\* A pass that relocated a tag of line 1 to revision "a", line 3, and wrote it.
PositionalLookupWitness ==
  /\ pc = "done"
  /\ out_json = <<new_data>>
  /\ \E p \in CommentPositions(data) :
       /\ TagsOf(data, p[1], p[2]) =
            <<[revision |-> OldRevision, line |-> 1, status |-> "Normal"]>>
       /\ TagsOf(new_data, p[1], p[2]) =
            <<[revision |-> OldRevision, line |-> 1, status |-> "Normal"],
              [revision |-> <<"a">>, line |-> 3, status |-> "Normal"]>>

\* C2: a tag whose revision is the current revision of the repository is
\* skipped: no ancestry query and no blame is made for it.  (Stated for the
\* passes whose `git rev-parse` succeeded.)
SkipOfCurrentTags ==
  (rev_parse_exit = 0 /\ pc \in {"is_ancestor", "blame", "lookup"})
    => CurrentTag.revision # HeadRevision

\* C3: when the ancestry query of a tag returned false, the pass goes on
\* without a blame and without a change of the output copy; a blame is only
\* ever made, and its result looked up, under an ancestry answer of true.
AncestryGate ==
  [][ /\ (pc = "is_ancestor" /\ ~is_ancestor)
           => (new_data' = new_data /\ pc' \in {"tag", "write"}
               /\ stdout_output' = <<>> /\ results' = <<>>)
      /\ (pc' \in {"blame", "lookup"}) => is_ancestor' ]_vars

\* The ancestry query of a tag has just exited with status 1.
AncestryGateWitness ==
  /\ pc = "is_ancestor"
  /\ merge_base_exit = 1
  /\ ~is_ancestor

\* C4: at every point of a pass the output copy has the files and the
\* comments of the input, in the same order, and every comment's input tags
\* as a prefix of its tags; a step changes the output copy, if at all, by
\* appending one tag to one comment; the input copy never changes; what is
\* written is such an extension of the input.
AppendOnly ==
  [][ /\ data' = data
      /\ Extends(data, new_data)
      /\ Extends(data', new_data')
      /\ \/ new_data' = new_data
         \/ /\ SameShape(new_data, new_data')
            /\ \E p \in CommentPositions(new_data) :
                 /\ Len(TagsOf(new_data', p[1], p[2])) =
                      Len(TagsOf(new_data, p[1], p[2])) + 1
                 /\ \A q \in CommentPositions(new_data) :
                      IsPrefix(TagsOf(new_data, q[1], q[2]),
                               TagsOf(new_data', q[1], q[2]))
                 /\ \A q \in CommentPositions(new_data) \ {p} :
                      TagsOf(new_data', q[1], q[2]) = TagsOf(new_data, q[1], q[2])
      /\ out_json' # <<>> => Extends(data', out_json'[1]) ]_vars

\* A pass that wrote a document with more tags than the input.
AppendOnlyWitness ==
  /\ pc = "done"
  /\ out_json # <<>>
  /\ out_json[1] # data

\* C5: when the blame of a tag has parsed into N records and tag.line < 1 or
\* tag.line > N, the lookup leaves the output copy as it is, does not panic,
\* and goes on to the next tag in document order, or to the writing of the
\* output when there is none.
OutOfRangeSafety ==
  [][ (pc = "lookup" /\ (CurrentTag.line < 1 \/ CurrentTag.line > Len(results)))
        => /\ new_data' = new_data
           /\ panic' = "none"
           /\ IF \E p \in TagPositions : Before(Position, p)
                THEN /\ pc' = "tag"
                     /\ Before(Position, Position')
                     /\ Position' \in TagPositions
                     /\ ~\E p \in TagPositions :
                          Before(Position, p) /\ Before(p, Position')
              ELSE pc' = "write" ]_vars

\* The blame of a tag has parsed and the tag's line is outside its records.
OutOfRangeSafetyWitness ==
  /\ pc = "lookup"
  /\ blame_exit = 0
  /\ Len(results) = Len(stdout_output)
  /\ \/ CurrentTag.line < 1 /\ Len(results) >= 1
     \/ CurrentTag.line > Len(results)

\* C6: an ancestry query that exits with a status other than 0 and 1 aborts
\* the pass.
IsAncestorErrorOutcome ==
  merge_base_exit \notin {0, 1} => pc = "panicked"

\* C7: when `git blame` exits with a non-zero status, or prints a line the
\* pattern rejects or whose number is no integer, the pass panics there;
\* nothing happens after a panic, and nothing has been written.
TraceFailureAborts ==
  [][ /\ (\/ blame_exit' # 0
          \/ \E i \in 1..Len(stdout_output') : stdout_output'[i] \in MalformedLines)
           => /\ pc' = "panicked"
              /\ panic' \in {"blame_failed", "captures_none", "parse_int"}
      /\ pc' = "panicked" => (out_json' = <<>> /\ n_write' = 0)
      /\ pc # "panicked" ]_vars

\* A pass that relocated a tag and then panicked on a malformed blame line.
TraceFailureAbortsWitness ==
  /\ pc = "panicked"
  /\ panic = "captures_none"
  /\ new_data # data
  /\ out_json = <<>>

\* C8: a `git rev-parse` that exits with a non-zero status aborts the pass.
CurrentRevisionErrorOutcome ==
  rev_parse_exit # 0 => pc = "panicked"

\* C9: every tag of the written document has a line >= 1.  (Stated for the
\* documents whose input tags all have a line >= 1.)
TagLineInvariant ==
  (pc = "done" /\ LinesPositive(data)) => LinesPositive(out_json[1])

\* C10: the tags are handled one at a time in document order, each once and
\* only the tags of the input; the ancestry query of a tag is made only when
\* its revision differs from current_revision, its blame only after that
\* query answered true, its lookup only after that blame parsed, and a tag is
\* appended only by that lookup; there are at most as many ancestry queries
\* and appended tags as the tags handled so far; the output is written once,
\* after the last tag.
Handled == {p \in TagPositions : p = Position \/ Before(p, Position)}

====
